---- MODULE Spec2Model ----
(***************************************************************************)
(* Model of the QuantumLink HTTP gateway (src/api/index.js): four route    *)
(* handlers over a shared connection pool.  Every handler runs up to its   *)
(* `await pool.query(...)`, is suspended while the datastore works, and is *)
(* resumed with the rows or with the error the query was rejected with.    *)
(***************************************************************************)
EXTENDS Integers, Sequences, FiniteSets, TLC

\* ------------------------------------------------------------------ bounds
NumRequests == 2          \* requests handled in one behaviour
MaxClock == 1             \* the datastore clock runs 0..MaxClock

Requests == 1..NumRequests

\* ------------------------------------------------------- datastore contents
\* Raw error texts a rejected query carries (err in the catch blocks).
Errors == {"connect ECONNREFUSED 10.0.0.5:5432"}

\* Two possible contents of the three tables.  Rows are ordered; the second
\* data set holds two rows under the serial number SN-1 and two customers
\* that differ only in the case of the email.
DataSets ==
  { [ external_warranties |->
        << [serial_number |-> "SN-2", product |-> "modem", expires |-> "2026"] >>,
      external_customers |->
        << [customer_external_id |-> "C-2", full_name |-> "Bob", email |-> "a@x.io",
            account_status |-> "active", password_hash |-> "h3"] >>,
      parts_pricing |-> << >> ],
    [ external_warranties |->
        << [serial_number |-> "SN-1", product |-> "router", expires |-> "2027"],
           [serial_number |-> "SN-1", product |-> "router", expires |-> "2031"],
           [serial_number |-> "SN-2", product |-> "modem", expires |-> "2026"] >>,
      external_customers |->
        << [customer_external_id |-> "C-1", full_name |-> "Ann", email |-> "a@x.io",
            account_status |-> "active", password_hash |-> "h1"],
           [customer_external_id |-> "C-2", full_name |-> "Bob", email |-> "A@x.io",
            account_status |-> "closed", password_hash |-> "h2"] >>,
      parts_pricing |->
        << [part_id |-> "P-1", part_name |-> "fan", base_price |-> "10",
            stock_quantity |-> "4", compatibility_notes |-> "all", supplier_cost |-> "6"] >> ] }

\* Request inputs.  Path parameters are strings; Injection is a value made
\* of SQL metacharacters.
Injection == "' OR '1'='1"
SerialInputs == {"SN-1", Injection, "SN-9"}
PartInputs == {"P-1", Injection, "P-9"}

\* A JSON body field: absent (undefined) or a string, possibly empty.
Undefined == [t |-> "undefined", v |-> ""]
Str(s) == [t |-> "string", v |-> s]
IdInputs == {Undefined, Str("C-2"), Str("C-1")}
EmailInputs == {Str("a@x.io"), Str("A@x.io"), Str("")}

\* ------------------------------------------------------------- SQL queries
\* A query is the SQL text plus the positional parameters.  The text is
\* kept as its select list, its table and the tokens of its WHERE clause.
Col(c) == [v |-> c, k |-> "col"]
Param(p) == [v |-> p, k |-> "param"]
Lit(s) == [v |-> s, k |-> "lit"]
Kw(w) == [v |-> w, k |-> "kw"]

ParamIndex(p) == IF p = "$1" THEN 1 ELSE 2

HealthSql == [cols |-> << "now" >>, from |-> "", where |-> << >>]

WarrantySql ==
  [cols |-> << "*" >>, from |-> "external_warranties",
   where |-> << Col("serial_number"), Kw("="), Param("$1") >>]

\* Variant: the two comparisons joined by OR.
VerifySql_Or ==
  [cols |-> << "customer_external_id", "full_name", "email", "account_status" >>,
   from |-> "external_customers",
   where |-> << Col("customer_external_id"), Kw("="), Param("$1"), Kw("OR"),
                Col("email"), Kw("="), Param("$2") >>]

VerifySql ==
  [cols |-> << "customer_external_id", "full_name", "email", "account_status" >>,
   from |-> "external_customers",
   where |-> << Col("customer_external_id"), Kw("="), Param("$1"), Kw("AND"),
                Col("email"), Kw("="), Param("$2") >>]

\* Variant: SELECT * instead of the five columns.
QuoteSql_Star ==
  [cols |-> << "*" >>, from |-> "parts_pricing",
   where |-> << Col("part_id"), Kw("="), Param("$1") >>]

\* Variant: the select list also asks for NOW().
QuoteSql_WithNow ==
  [cols |-> << "part_id", "part_name", "base_price", "stock_quantity",
               "compatibility_notes", "now" >>,
   from |-> "parts_pricing",
   where |-> << Col("part_id"), Kw("="), Param("$1") >>]

QuoteSql ==
  [cols |-> << "part_id", "part_name", "base_price", "stock_quantity",
               "compatibility_notes" >>,
   from |-> "parts_pricing",
   where |-> << Col("part_id"), Kw("="), Param("$1") >>]

\* Value of one operand of a comparison, for one row.
Operand(tok, params, row) ==
  IF tok.k = "col" THEN row[tok.v]
  ELSE IF tok.k = "param" THEN params[ParamIndex(tok.v)]
  ELSE tok.v

\* WHERE clause: comparisons joined by AND and OR, AND binding tighter.
\* i is the position of the next comparison, cur the value of the
\* conjunction read so far.
RECURSIVE EvalWhere(_, _, _, _, _)
EvalWhere(toks, params, row, i, cur) ==
  LET c == cur /\ (Operand(toks[i], params, row) = Operand(toks[i + 2], params, row))
  IN  IF i + 3 > Len(toks) THEN c
      ELSE IF toks[i + 3].v = "AND" THEN EvalWhere(toks, params, row, i + 4, c)
      ELSE c \/ EvalWhere(toks, params, row, i + 4, TRUE)

Matches(sql, params, row) ==
  Len(sql.where) = 0 \/ EvalWhere(sql.where, params, row, 1, TRUE)

\* Select list for one row: * is the row as stored, now is NOW(), any other
\* item is the column of that name.
Project(cols, row, clock) ==
  IF cols = << "*" >> THEN row
  ELSE [c \in {cols[i] : i \in 1..Len(cols)} |-> IF c = "now" THEN clock ELSE row[c]]

RECURSIVE MapProject(_, _, _)
MapProject(cols, rows, clock) ==
  IF rows = << >> THEN << >>
  ELSE << Project(cols, Head(rows), clock) >> \o MapProject(cols, Tail(rows), clock)

\* What the datastore answers to a query: the select list of every row that
\* satisfies WHERE, in table order.  A query without FROM has one row.
Exec(data, clock, q) ==
  LET source == IF q.sql.from = "" THEN << [dummy |-> ""] >> ELSE data[q.sql.from]
  IN  MapProject(q.sql.cols,
                 SelectSeq(source, LAMBDA row : Matches(q.sql, q.params, row)),
                 clock)

\* await pool.query(text, params): the results the pool can settle the query
\* with.  An available datastore answers with the rows; an unavailable one
\* makes the query fail with an error.
PoolQuery(data, clock, up, q) ==
  IF up THEN {[rows |-> Exec(data, clock, q), ok |-> TRUE, err |-> ""]}
  ELSE {[rows |-> << >>, ok |-> FALSE, err |-> e] : e \in Errors}

\* ---------------------------------------------------------------- handlers
Response(code, b) == [status |-> code, body |-> b]
ErrorBody(msg) == [error |-> msg]
NoResult == [rows |-> << >>, ok |-> FALSE, err |-> ""]

\* Text of the query each handler hands to pool.query.
HealthQuery == [params |-> << >>, sql |-> HealthSql]

\* Variant: the serial number is spliced between quotes into the SQL text.
\* A plain value lexes to one literal; the metacharacter value closes the
\* literal and adds  OR '1' = '1'.
WarrantyQuery_Interpolated(serialNumber) ==
  LET lex == IF serialNumber = Injection
               THEN << Lit(""), Kw("OR"), Lit("1"), Kw("="), Lit("1") >>
               ELSE << Lit(serialNumber) >>
  IN  [params |-> << >>,
       sql |-> [WarrantySql EXCEPT !.where = << Col("serial_number"), Kw("=") >> \o lex]]

WarrantyQuery(serialNumber) == [params |-> << serialNumber >>, sql |-> WarrantySql]
VerifyQuery(externalAccountId, email) ==
  [params |-> << externalAccountId.v, email.v >>, sql |-> VerifySql]
QuoteQuery(partId) == [params |-> << partId >>, sql |-> QuoteSql]

\* !x of a body field.
Falsy(x) == x.t = "undefined" \/ x.v = ""

\* Variant: && in place of ||.
VerifyInvalid_And(externalAccountId, email) == Falsy(externalAccountId) /\ Falsy(email)

\* if (!externalAccountId || !email)
VerifyInvalid(externalAccountId, email) == Falsy(externalAccountId) \/ Falsy(email)

\* The responses each handler sends once its query has settled, in order.
HealthSuccess(result) ==
  << Response(200, [status |-> "QuantumLink API is connected to Neon Cloud!",
                    db_time |-> result.rows[1].now]) >>
\* Variant: the error text is returned to the caller.
HealthFailure_Leak(err) == << Response(500, ErrorBody(err)) >>
HealthFailure(err) == << Response(500, ErrorBody("Failed to connect to Neon.")) >>


\* Variant: the last row instead of the first.
WarrantySuccess_LastRow(result) ==
  IF Len(result.rows) = 0
    THEN << Response(404, ErrorBody("Warranty not found for this serial number.")) >>
    ELSE << Response(200, result.rows[Len(result.rows)]) >>
WarrantySuccess(result) ==
  IF Len(result.rows) = 0
    THEN << Response(404, ErrorBody("Warranty not found for this serial number.")) >>
    ELSE << Response(200, result.rows[1]) >>
\* Variant: the error text is returned to the caller.
WarrantyFailure_Leak(err) == << Response(500, ErrorBody(err)) >>
WarrantyFailure(err) ==
  << Response(500, ErrorBody("Internal server error while fetching warranty.")) >>

VerifyRejected ==
  << Response(400, ErrorBody("Missing required fields: externalAccountId or email.")) >>
VerifySuccess(result) ==
  IF Len(result.rows) = 0
    THEN << Response(401,
              [verified |-> FALSE,
               message |-> "Identity verification failed. No match found in external system."]) >>
    ELSE << Response(200, [verified |-> TRUE, customer |-> result.rows[1]]) >>
VerifyFailure(err) ==
  << Response(500, ErrorBody("Internal server error during user verification.")) >>

\* Variant: the row is never sent when one is found.
QuoteSuccess_NoSend(result) ==
  IF Len(result.rows) = 0
    THEN << Response(404, ErrorBody("Part not found in inventory.")) >>
    ELSE << >>
QuoteSuccess(result) ==
  IF Len(result.rows) = 0
    THEN << Response(404, ErrorBody("Part not found in inventory.")) >>
    ELSE << Response(200, result.rows[1]) >>
QuoteFailure(err) ==
  << Response(500, ErrorBody("Internal server error while fetching repair quote.")) >>

\* console.error(<prefix>, err)
LogEntry(prefix, err) == [err |-> err, msg |-> prefix]

\* ------------------------------------------------------------------- state
VARIABLES
  db,        \* contents of the three tables
  dbUp,      \* the datastore answers queries
  now,       \* the datastore clock
  pc,        \* per request: "idle", "awaiting" (suspended in await), "done"
  route,     \* per request: the handler it was routed to
  args,      \* per request: serialNumber / partId / body fields
  queries,   \* per request: the queries handed to the pool, in order
  result,    \* per request: what its awaited query settled with
  sent,      \* per request: the responses sent, in order
  console    \* entries written by console.error

vars == << db, dbUp, now, pc, route, args, queries, result, sent, console >>

NoArgs == [email |-> Undefined, serialNumber |-> "", externalAccountId |-> Undefined,
           partId |-> ""]

Init ==
  /\ db \in DataSets
  /\ dbUp \in BOOLEAN
  /\ now = 0
  /\ pc = [r \in Requests |-> "idle"]
  /\ route = [r \in Requests |-> "none"]
  /\ args = [r \in Requests |-> NoArgs]
  /\ queries = [r \in Requests |-> << >>]
  /\ result = [r \in Requests |-> NoResult]
  /\ sent = [r \in Requests |-> << >>]
  /\ console = {}

\* Requests are numbered in the order they arrive.
Arrives(r) == pc[r] = "idle" /\ (IF r = 1 THEN TRUE ELSE pc[r - 1] # "idle")

\* Variant: the query is handed to the pool twice.
Issue_Twice(r, rt, a, q) ==
  /\ Arrives(r)
  /\ route' = [route EXCEPT ![r] = rt]
  /\ args' = [args EXCEPT ![r] = a]
  /\ queries' = [queries EXCEPT ![r] = Append(Append(@, q), q)]
  /\ pc' = [pc EXCEPT ![r] = "awaiting"]
  /\ UNCHANGED << db, dbUp, now, result, sent, console >>

\* The handler of request r runs to its await: the query is handed to the
\* pool and the handler is suspended.
Issue(r, rt, a, q) ==
  /\ Arrives(r)
  /\ route' = [route EXCEPT ![r] = rt]
  /\ args' = [args EXCEPT ![r] = a]
  /\ queries' = [queries EXCEPT ![r] = Append(@, q)]
  /\ pc' = [pc EXCEPT ![r] = "awaiting"]
  /\ UNCHANGED << db, dbUp, now, result, sent, console >>

HealthStart(r) == Issue(r, "health", NoArgs, HealthQuery)

WarrantyStart(r) ==
  \E serialNumber \in SerialInputs :
    Issue(r, "warranty", [NoArgs EXCEPT !.serialNumber = serialNumber],
          WarrantyQuery(serialNumber))

QuoteStart(r) ==
  \E partId \in PartInputs :
    Issue(r, "quote", [NoArgs EXCEPT !.partId = partId], QuoteQuery(partId))

VerifyStart(r) ==
  \E externalAccountId \in IdInputs, email \in EmailInputs :
    LET a == [NoArgs EXCEPT !.externalAccountId = externalAccountId, !.email = email]
    IN  IF VerifyInvalid(externalAccountId, email)
          THEN /\ Arrives(r)
               /\ route' = [route EXCEPT ![r] = "verify"]
               /\ args' = [args EXCEPT ![r] = a]
               /\ sent' = [sent EXCEPT ![r] = @ \o VerifyRejected]
               /\ pc' = [pc EXCEPT ![r] = "done"]
               /\ UNCHANGED << db, dbUp, now, queries, result, console >>
          ELSE Issue(r, "verify", a, VerifyQuery(externalAccountId, email))

\* The results the await of request r can return.
Settled(r) == PoolQuery(db, now, dbUp, queries[r][Len(queries[r])])

\* The responses of the try branch of handler rt for the result res.
OnResult(rt, res) ==
  IF rt = "health" THEN HealthSuccess(res)
  ELSE IF rt = "warranty" THEN WarrantySuccess(res)
  ELSE IF rt = "verify" THEN VerifySuccess(res)
  ELSE QuoteSuccess(res)

\* The responses of the catch branch of handler rt for the error err.
OnError(rt, err) ==
  IF rt = "health" THEN HealthFailure(err)
  ELSE IF rt = "warranty" THEN WarrantyFailure(err)
  ELSE IF rt = "verify" THEN VerifyFailure(err)
  ELSE QuoteFailure(err)

\* The await of request r returns: the pool has settled the query (with the
\* rows, or with an error), and the handler runs to its end: the try branch
\* when the query resolved, the catch branch (log, then 500) when it was
\* rejected.
Resume(r, rt, prefix) ==
  /\ pc[r] = "awaiting"
  /\ route[r] = rt
  /\ \E res \in Settled(r) :
       /\ result' = [result EXCEPT ![r] = res]
       /\ IF res.ok
            THEN /\ sent' = [sent EXCEPT ![r] = @ \o OnResult(rt, res)]
                 /\ UNCHANGED console
            ELSE /\ sent' = [sent EXCEPT ![r] = @ \o OnError(rt, res.err)]
                 /\ console' = console \cup {LogEntry(prefix, res.err)}
  /\ pc' = [pc EXCEPT ![r] = "done"]
  /\ UNCHANGED << db, dbUp, now, route, args, queries >>

HealthResume(r) == Resume(r, "health", "Database connection failed:")

WarrantyResume(r) == Resume(r, "warranty", "Database error:")

VerifyResume(r) == Resume(r, "verify", "Database error during verification:")

QuoteResume(r) == Resume(r, "quote", "Database error fetching quote:")

\* Environment: the datastore goes away, comes back, and its clock advances.
DbFail ==
  /\ dbUp
  /\ dbUp' = FALSE
  /\ UNCHANGED << db, now, pc, route, args, queries, result, sent, console >>

DbRecover ==
  /\ ~dbUp
  /\ dbUp' = TRUE
  /\ UNCHANGED << db, now, pc, route, args, queries, result, sent, console >>

Tick ==
  /\ now < MaxClock
  /\ now' = now + 1
  /\ UNCHANGED << db, dbUp, pc, route, args, queries, result, sent, console >>

Next ==
  \/ \E r \in Requests : HealthStart(r)
  \/ \E r \in Requests : WarrantyStart(r)
  \/ \E r \in Requests : VerifyStart(r)
  \/ \E r \in Requests : QuoteStart(r)
  \/ \E r \in Requests : HealthResume(r)
  \/ \E r \in Requests : WarrantyResume(r)
  \/ \E r \in Requests : VerifyResume(r)
  \/ \E r \in Requests : QuoteResume(r)
  \/ DbFail
  \/ DbRecover
  \/ Tick

Spec == Init /\ [][Next]_vars

\* ------------------------------------------------------------- properties
Done(r) == pc[r] = "done"
\* The request's query was settled with rows / with an error.
Answered(r) == Done(r) /\ queries[r] # << >> /\ result[r].ok
Failed(r) == Done(r) /\ queries[r] # << >> /\ ~result[r].ok

HasFalsyField(r) == Falsy(args[r].externalAccountId) \/ Falsy(args[r].email)

\* The stored rows a lookup is about, read off the tables directly.
WarrantyRows(serialNumber) ==
  SelectSeq(db.external_warranties, LAMBDA row : row.serial_number = serialNumber)
CustomerRows(id, email) ==
  SelectSeq(db.external_customers,
            LAMBDA row : row.customer_external_id = id /\ row.email = email)
PartRows(partId) ==
  SelectSeq(db.parts_pricing, LAMBDA row : row.part_id = partId)

CustomerView(row) ==
  [customer_external_id |-> row.customer_external_id, full_name |-> row.full_name,
   email |-> row.email, account_status |-> row.account_status]
PartView(row) ==
  [part_id |-> row.part_id, part_name |-> row.part_name, base_price |-> row.base_price,
   stock_quantity |-> row.stock_quantity, compatibility_notes |-> row.compatibility_notes]

\* C1: a verify-user request with both fields present, whose query the
\* datastore answered, gets 200 {verified: true, customer: first matching
\* row} when one customer record equals both fields exactly, and 401 with
\* verified: false when no single record does.
C1_VerifyUser ==
  \A r \in Requests :
    (route[r] = "verify" /\ ~HasFalsyField(r) /\ Answered(r)) =>
      LET m == CustomerRows(args[r].externalAccountId.v, args[r].email.v)
      IN  /\ Len(sent[r]) = 1
          /\ IF m # << >>
               THEN sent[r][1] = [status |-> 200,
                                  body |-> [verified |-> TRUE,
                                            customer |-> CustomerView(m[1])]]
               ELSE /\ sent[r][1].status = 401
                    /\ sent[r][1].body.verified = FALSE

\* One request verified, and one refused although its id is the id of one
\* record and its email the email of another.
C1_Witness ==
  \E r1, r2 \in Requests :
    /\ route[r1] = "verify" /\ Answered(r1) /\ sent[r1][1].status = 200
    /\ route[r2] = "verify" /\ Answered(r2) /\ sent[r2][1].status = 401
    /\ \E i, j \in 1..Len(db.external_customers) :
         /\ i # j
         /\ db.external_customers[i].customer_external_id = args[r2].externalAccountId.v
         /\ db.external_customers[j].email = args[r2].email.v

\* C2: a verify-user request with a missing or falsy externalAccountId or
\* email is answered 400 at once and hands no query to the pool, whether or
\* not the datastore is available.
C2_MissingField ==
  \A r \in Requests :
    (route[r] = "verify" /\ HasFalsyField(r)) =>
      /\ Done(r)
      /\ queries[r] = << >>
      /\ ~result[r].ok /\ result[r].rows = << >> /\ result[r].err = ""
      /\ Len(sent[r]) = 1
      /\ sent[r][1].status = 400

C2_Witness ==
  /\ ~dbUp
  /\ \E r \in Requests :
       /\ route[r] = "verify" /\ Falsy(args[r].email) /\ ~Falsy(args[r].externalAccountId)
       /\ Done(r) /\ sent[r][1].status = 400
  /\ \E r \in Requests :
       /\ route[r] = "verify" /\ Falsy(args[r].externalAccountId)
       /\ Done(r) /\ sent[r][1].status = 400

\* C3: a warranty request whose query the datastore answered gets 200 with
\* exactly the first stored row whose serial_number equals the path
\* parameter, and 404 "Warranty not found for this serial number." when no
\* row has that serial number.
C3_WarrantyLookup ==
  \A r \in Requests :
    (route[r] = "warranty" /\ Answered(r)) =>
      LET m == WarrantyRows(args[r].serialNumber)
      IN  IF m # << >>
            THEN sent[r] = << [status |-> 200, body |-> m[1]] >>
            ELSE sent[r] = << [status |-> 404,
                               body |-> [error |-> "Warranty not found for this serial number."]] >>

\* A serial number stored twice answered with a row, and an absent one 404.
C3_Witness ==
  \E r1, r2 \in Requests :
    /\ route[r1] = "warranty" /\ Answered(r1) /\ sent[r1][1].status = 200
    /\ Len(WarrantyRows(args[r1].serialNumber)) = 2
    /\ route[r2] = "warranty" /\ Answered(r2) /\ sent[r2][1].status = 404

\* C4: a quote request whose query the datastore answered gets 200 with the
\* first row of that part id restricted to part_id, part_name, base_price,
\* stock_quantity and compatibility_notes, and 404 "Part not found in
\* inventory." when the part id is absent.
C4_QuoteLookup ==
  \A r \in Requests :
    (route[r] = "quote" /\ Answered(r)) =>
      LET m == PartRows(args[r].partId)
      IN  IF m # << >>
            THEN sent[r] = << [status |-> 200, body |-> PartView(m[1])] >>
            ELSE sent[r] = << [status |-> 404,
                               body |-> [error |-> "Part not found in inventory."]] >>

C4_Witness ==
  \E r1, r2 \in Requests :
    /\ route[r1] = "quote" /\ Answered(r1) /\ sent[r1][1].status = 200
    /\ DOMAIN PartRows(args[r1].partId)[1] # DOMAIN sent[r1][1].body
    /\ route[r2] = "quote" /\ Answered(r2) /\ sent[r2][1].status = 404

\* The fixed error message of each handler's catch block.
GenericError(rt) ==
  IF rt = "health" THEN "Failed to connect to Neon."
  ELSE IF rt = "warranty" THEN "Internal server error while fetching warranty."
  ELSE IF rt = "verify" THEN "Internal server error during user verification."
  ELSE "Internal server error while fetching repair quote."

\* The step answers request r.
Answers(r) == pc[r] # "done" /\ pc'[r] = "done"

\* C5 as stated: every request answered while the datastore is unavailable,
\* on any of the four endpoints, is answered 500.
C5_AnyRequest500 ==
  [][\A r \in Requests :
       (~dbUp /\ Answers(r)) => (Len(sent'[r]) = 1 /\ sent'[r][1].status = 500)]_vars

\* C5 (amended): while the datastore is unavailable, every request that
\* hands a query to the pool is answered 500 with exactly its endpoint's
\* fixed message and nothing of the underlying error; a verify-user request
\* with a falsy field hands over no query and is answered 400.
C5_QueryFailure500 ==
  [][\A r \in Requests :
       (~dbUp /\ Answers(r)) =>
         IF queries'[r] # << >>
           THEN /\ sent'[r] = << [status |-> 500,
                                  body |-> [error |-> GenericError(route'[r])]] >>
                /\ result'[r].err \in Errors
                /\ sent'[r][1].body.error # result'[r].err
           ELSE /\ route'[r] = "verify"
                /\ sent'[r][1].status = 400]_vars

\* The datastore is down and a verify-user request with both fields present
\* has been answered 500 after its query failed.
C5_Witness ==
  /\ ~dbUp
  /\ \E r \in Requests :
       /\ route[r] = "verify" /\ ~HasFalsyField(r) /\ Failed(r)
       /\ sent[r][1].status = 500
  /\ \E r \in Requests :
       /\ route[r] \in {"health", "warranty", "quote"} /\ Failed(r)
       /\ sent[r][1].status = 500

\* C6: a serial number or part id, metacharacters or not, reaches the pool
\* only as the bound parameter: the WHERE clause handed over holds no
\* literal.  When the datastore answers, the rows returned are exactly the
\* rows whose key equals that string, and a value equal to no stored key is
\* answered 404.
C6_BoundParameter ==
  \A r \in Requests :
    (route[r] \in {"warranty", "quote"} /\ queries[r] # << >>) =>
      LET q == queries[r][1]
          value == IF route[r] = "warranty" THEN args[r].serialNumber ELSE args[r].partId
          key == IF route[r] = "warranty" THEN "serial_number" ELSE "part_id"
          stored == IF route[r] = "warranty" THEN WarrantyRows(value) ELSE PartRows(value)
      IN  /\ q.params = << value >>
          /\ \A i \in 1..Len(q.sql.where) : q.sql.where[i].k # "lit"
          /\ Answered(r) =>
               /\ Len(result[r].rows) = Len(stored)
               /\ \A i \in 1..Len(result[r].rows) : result[r].rows[i][key] = value
               /\ stored = << >> => sent[r][1].status = 404

\* The metacharacter value looked up in non-empty tables and answered 404.
C6_Witness ==
  \E r1, r2 \in Requests :
    /\ route[r1] = "warranty" /\ args[r1].serialNumber = Injection
    /\ Answered(r1) /\ sent[r1][1].status = 404
    /\ db.external_warranties # << >>
    /\ route[r2] = "quote" /\ args[r2].partId = Injection
    /\ Answered(r2) /\ sent[r2][1].status = 404
    /\ db.parts_pricing # << >>

HealthResponses(r, message) ==
  IF result[r].ok
    THEN /\ sent[r] = << [status |-> 200,
                          body |-> [status |-> "QuantumLink API is connected to Neon Cloud!",
                                    db_time |-> result[r].rows[1].now]] >>
         /\ result[r].rows[1].now \in 0..now
    ELSE /\ sent[r] = << [status |-> 500, body |-> [error |-> message]] >>
         /\ [err |-> result[r].err, msg |-> "Database connection failed:"] \in console
         /\ message # result[r].err

\* C7 as stated: the failing health check answers {error: "Failed to connect"}.
C7_HealthFailedToConnect ==
  \A r \in Requests :
    (route[r] = "health" /\ Done(r)) => HealthResponses(r, "Failed to connect")

\* C7 (amended): the health check answers 200 with the fixed status string
\* and the timestamp its query returned; when the query fails it answers
\* 500 {error: "Failed to connect to Neon."}, the underlying error being
\* logged and not returned.
C7_Health ==
  \A r \in Requests :
    (route[r] = "health" /\ Done(r)) => HealthResponses(r, "Failed to connect to Neon.")

C7_Witness ==
  \E r1, r2 \in Requests :
    /\ route[r1] = "health" /\ Answered(r1) /\ sent[r1][1].body.db_time = MaxClock
    /\ route[r2] = "health" /\ Failed(r2) /\ sent[r2][1].status = 500

\* The same GET request twice, both answered by the datastore or both not.
Repeated(r1, r2) ==
  /\ r1 # r2
  /\ Done(r1) /\ Done(r2)
  /\ route[r1] \in {"health", "warranty", "quote"}
  /\ route[r1] = route[r2]
  /\ args[r1] = args[r2]
  /\ result[r1].ok = result[r2].ok

\* C8 as stated: a repeated GET request, health included, gets the identical
\* response.
C8_IdenticalResponse ==
  \A r1, r2 \in Requests : Repeated(r1, r2) => sent[r1] = sent[r2]

\* C8 (amended): a repeated warranty or quote request gets the identical
\* response when the datastore answers both or fails both; a repeated health
\* request gets the same status and the same fixed status string, while
\* db_time is the datastore's time at each query and may differ.
C8_Idempotent ==
  \A r1, r2 \in Requests :
    Repeated(r1, r2) =>
      IF route[r1] = "health" /\ result[r1].ok
        THEN /\ sent[r1][1].status = sent[r2][1].status
             /\ sent[r1][1].body.status = sent[r2][1].body.status
        ELSE sent[r1] = sent[r2]

\* The same part quoted twice and answered with its row both times, the
\* datastore clock having advanced.
C8_Witness ==
  /\ now > 0
  /\ \E r1, r2 \in Requests :
       /\ Repeated(r1, r2)
       /\ route[r1] = "quote" /\ result[r1].ok /\ sent[r1][1].status = 200
       /\ pc[r2] = "done"

\* C9 as stated: every answered request has handed exactly one query to the
\* pool.
C9_ExactlyOneQuery ==
  \A r \in Requests : Done(r) => Len(queries[r]) = 1

\* C9 (amended): a request hands at most one query to the pool, and does so
\* before any response is sent: exactly one, except a verify-user request
\* with a falsy field, which hands over none.  A failed query is not
\* retried: the request is answered 500 with that one query issued.
C9_AtMostOneQuery ==
  \A r \in Requests :
    /\ Len(queries[r]) <= 1
    /\ sent[r] # << >> => Done(r)
    /\ pc[r] = "awaiting" => Len(queries[r]) = 1
    /\ Done(r) => (Len(queries[r]) = 0 <=> (route[r] = "verify" /\ HasFalsyField(r)))
    /\ Failed(r) => (Len(queries[r]) = 1 /\ sent[r][1].status = 500)

C9_Witness ==
  \E r1, r2 \in Requests :
    /\ Failed(r1) /\ Len(queries[r1]) = 1 /\ sent[r1][1].status = 500
    /\ Done(r2) /\ route[r2] = "verify" /\ Len(queries[r2]) = 0

\* The stored rows the query of request r is about, and what its select list
\* keeps of one of them.
OwnRows(r) ==
  IF route[r] = "warranty" THEN WarrantyRows(args[r].serialNumber)
  ELSE IF route[r] = "quote" THEN PartRows(args[r].partId)
  ELSE CustomerRows(args[r].externalAccountId.v, args[r].email.v)
OwnView(r, row) ==
  IF route[r] = "warranty" THEN row
  ELSE IF route[r] = "quote" THEN PartView(row)
  ELSE CustomerView(row)

\* C10: however the in-flight requests interleave, every request gets
\* exactly one response, sent when its handler ends; the result it is
\* built from is the result of its own query on the data, and two requests
\* with the same route, parameters and query result get the same response.
C10_Isolation ==
  /\ \A r \in Requests :
       /\ Len(sent[r]) <= 1
       /\ Done(r) <=> Len(sent[r]) = 1
       /\ Answered(r) =>
            IF route[r] = "health"
              THEN \E t \in 0..now : result[r].rows = << [now |-> t] >>
              ELSE /\ Len(result[r].rows) = Len(OwnRows(r))
                   /\ \A i \in 1..Len(OwnRows(r)) :
                        result[r].rows[i] = OwnView(r, OwnRows(r)[i])
  /\ \A r1, r2 \in Requests :
       (Done(r1) /\ Done(r2) /\ route[r1] = route[r2] /\ args[r1] = args[r2]
          /\ result[r1] = result[r2]) => sent[r1] = sent[r2]

\* A later request answered with a row while an earlier one is still
\* suspended in its await.
C10_Witness ==
  \E r1, r2 \in Requests :
    /\ r1 < r2
    /\ pc[r1] = "awaiting"
    /\ Answered(r2) /\ route[r2] = "quote" /\ sent[r2][1].status = 200

====
